---- MODULE Spec2Model ----
(***************************************************************************)
(* A model of src/app.py: the get-info reduction (format_size,             *)
(* estimate_video_size, get_info), the /download and /serve-file handlers  *)
(* and the cleanup_old_files thread working on the shared DOWNLOAD_DIR.    *)
(*                                                                         *)
(* Python values are encoded as follows.  An optional number is a sequence *)
(* of length 0 (None) or 1 (the number).  An optional string is the string *)
(* itself, or NoneStr.  Durations are whole seconds, sizes are bytes and   *)
(* stay below 2^31.                                                        *)
(***************************************************************************)
EXTENDS Integers, Sequences, FiniteSets, TLC

VARIABLES
    giReq,      \* the /get-info request in flight and what the Job Runner answers to it
    giResp,     \* the response of get_info, NoResp before it has answered
    estArgs,    \* the arguments of a call of estimate_video_size
    estRes,     \* what that call produced, NotRun before it has run
    files,      \* DOWNLOAD_DIR: file name -> seconds since its last write, or Gone
    dl,         \* per /download request: its position and locals
    sv,         \* per /serve-file request: its position and locals
    jan         \* the cleanup thread: its position and locals

vars == <<giReq, giResp, estArgs, estRes, files, dl, sv, jan>>

(***************************************************************************)
(* Python values                                                           *)
(***************************************************************************)
None == <<>>
Some(v) == <<v>>
NoneStr == "<None>"
MissingKey == "<missing>"

\* Python truthiness of an optional number: None and 0 are false.
Truthy(x) == x # None /\ x[1] # 0

\* Python truthiness of an optional string: None and "" are false.
TruthyStr(s) == s # NoneStr /\ s # ""

\* x or y, on optional numbers
PyOr(x, y) == IF Truthy(x) THEN x ELSE y

Abs(n) == IF n < 0 THEN 0 - n ELSE n

(***************************************************************************)
(* format_size                                                             *)
(***************************************************************************)
KiB == 1024
MiB == 1024 * 1024
GiB == 1024 * 1024 * 1024

\* n / d rounded to the nearest integer, ties to the even one: what the
\* format specification .1f does to the exactly represented quotient.
RoundHalfEven(n, d) ==
    LET q == n \div d
        r == n % d
    IN  IF 2 * r < d THEN q
        ELSE IF 2 * r > d THEN q + 1
        ELSE IF q % 2 = 0 THEN q ELSE q + 1

\* The tenths of bytes / unit for unit = KiB or MiB.
Tenths(bytes, unit) ==
    (bytes \div unit) * 10 + RoundHalfEven((bytes % unit) * 10, unit)

\* The tenths of bytes / GiB, computed without leaving 32 bits:
\* rem * 5 / 2^29 with rem = h * 2^10 + l.
TenthsGiB(bytes) ==
    LET rem == bytes % GiB
        h == rem \div KiB
        l == rem % KiB
        x == 5 * h + ((5 * l) \div KiB)
        y == (5 * l) % KiB
        half == 512 * 512
        q == x \div (2 * half)
        r == x % (2 * half)
        up == IF r < half THEN 0
              ELSE IF r > half \/ y > 0 THEN 1
              ELSE IF q % 2 = 0 THEN 0 ELSE 1
    IN  (bytes \div GiB) * 10 + q + up

\* format_size(bytes_size): None, or <<unit, n>> where n is the number of
\* bytes for unit "B" and the number of tenths of the unit otherwise
\* (<<"KB", 15>> is the string "1.5 KB").
format_size(bytes_size) ==
    IF ~ Truthy(bytes_size) \/ bytes_size[1] <= 0 THEN None
    ELSE LET b == bytes_size[1]
         IN  IF b >= GiB THEN <<"GB", TenthsGiB(b)>>
             ELSE IF b >= MiB THEN <<"MB", Tenths(b, MiB)>>
             ELSE IF b >= KiB THEN <<"KB", Tenths(b, KiB)>>
             ELSE <<"B", b>>

(***************************************************************************)
(* estimate_video_size                                                     *)
(***************************************************************************)
\* bitrate_map, in declaration order
bitrate_keys == <<2160, 1440, 1080, 720, 480, 360, 240, 144>>
bitrate_map == [x \in {2160, 1440, 1080, 720, 480, 360, 240, 144} |->
    CASE x = 2160 -> 20000 [] x = 1440 -> 12000 [] x = 1080 -> 5000
      [] x = 720 -> 2500 [] x = 480 -> 1500 [] x = 360 -> 800
      [] x = 240 -> 400 [] x = 144 -> 200]

\* A variant of closest that lets a later key win a tie.
closest_LastWins(height) ==
    LET i == CHOOSE i \in 1..Len(bitrate_keys) :
                 \A j \in 1..Len(bitrate_keys) :
                     \/ Abs(bitrate_keys[i] - height) < Abs(bitrate_keys[j] - height)
                     \/ (Abs(bitrate_keys[i] - height) = Abs(bitrate_keys[j] - height)
                         /\ i >= j)
    IN  bitrate_keys[i]

\* min(bitrate_map.keys(), key=lambda x: abs(x - height)): the first key, in
\* declaration order, among those at the least distance.
closest(height) ==
    LET i == CHOOSE i \in 1..Len(bitrate_keys) :
                 \A j \in 1..Len(bitrate_keys) :
                     \/ Abs(bitrate_keys[i] - height) < Abs(bitrate_keys[j] - height)
                     \/ (Abs(bitrate_keys[i] - height) = Abs(bitrate_keys[j] - height)
                         /\ i <= j)
    IN  bitrate_keys[i]

\* The result of a call: it raised (a TypeError), or it returned value.
Raised == [raised |-> TRUE, value |-> None]
Returned(v) == [raised |-> FALSE, value |-> v]

\* int(rate * 1000 / 8 * duration) for whole rate and duration
BytesAt(rate, duration) == rate * 125 * duration

estimate_video_size(duration, height, tbr) ==
    IF ~ Truthy(duration) THEN Returned(None)
    ELSE IF Truthy(tbr) /\ tbr[1] > 0 THEN Returned(Some(BytesAt(tbr[1], duration[1])))
    ELSE IF height = None THEN Raised
    ELSE Returned(Some(BytesAt(bitrate_map[closest(height[1])], duration[1])))

(***************************************************************************)
(* get_info                                                                *)
(***************************************************************************)
\* The strings a size or a label is shown as, beside format_size's:
\* <<"~p", h>> is "~{h}p", <<"p", h>> is "{h}p".
HighQuality == <<"High Quality", 0>>
ApproxLabel(height) == <<"~p", height>>
MP3_KBPS == 192

\* An exception's message, with what the handler looks for in it.
TypeErrorMsg ==
    [text |-> "'>' not supported between instances of 'NoneType' and 'int'",
     signIn |-> FALSE, bot |-> FALSE]

Response(status, error, formats, duration_seconds) ==
    [status |-> status, error |-> error, formats |-> formats,
     duration_seconds |-> duration_seconds]

\* No response yet.
NoResp == Response(0, "", <<>>, None)

\* except Exception as e, lines 174-178
GetInfoError(msg) ==
    IF msg.signIn \/ msg.bot
    THEN Response(500, "YouTube is blocking this request. Try a different video or try again later.", <<>>, None)
    ELSE Response(500, msg.text, <<>>, None)

has_video(f) == TruthyStr(f.vcodec) /\ f.vcodec # "none"
has_audio(f) == TruthyStr(f.acodec) /\ f.acodec # "none"

\* f.get('tbr', 0) or 0
tbr_of(f) == IF Truthy(f.tbr) THEN f.tbr[1] ELSE 0

\* f.get('ext', 'mp4')
ext_of(f) == IF f.ext = MissingKey THEN "mp4" ELSE f.ext

\* A variant of reported_size that asks for the approximate size first.
reported_size_ApproxFirst(f) == PyOr(f.filesize_approx, f.filesize)

\* line 129: f.get('filesize') or f.get('filesize_approx')
reported_size(f) == PyOr(f.filesize, f.filesize_approx)

\* lines 129-133: the filesize of candidate f, as the result of a call: the
\* comparison duration > 0 raises on None, and is made only when no size
\* was reported.
resolved_size(f, duration) ==
    LET reported == reported_size(f)
    IN  IF Truthy(reported) THEN Returned(reported)
        ELSE IF duration = None THEN Raised
        ELSE IF duration[1] > 0
             THEN estimate_video_size(duration, f.height, Some(tbr_of(f)))
             ELSE Returned(reported)

\* A variant of replaces that lets an equal bitrate replace the entry.
replaces_OnTie(seen, height, tbr) ==
    height \notin DOMAIN seen \/ tbr >= seen[height].tbr

\* line 135: whether the candidate replaces what seen_res holds for its height
replaces(seen, height, tbr) ==
    height \notin DOMAIN seen \/ tbr > seen[height].tbr

\* A variant of qualifies that takes any codec string for a track.
qualifies_AnyCodec(f) ==
    TruthyStr(f.vcodec) /\ TruthyStr(f.acodec) /\ Truthy(f.height)

\* line 128: has_video and has_audio and height
qualifies(f) == has_video(f) /\ has_audio(f) /\ Truthy(f.height)

\* One iteration of the loop of lines 123-142 on candidate f.  st is
\* [raised, seen]: whether an earlier iteration raised, and seen_res.
LoopBody(st, f, duration) ==
    IF st.raised \/ ~ qualifies(f) THEN st
    ELSE
      LET height == f.height[1]
          tbr == tbr_of(f)
          size == resolved_size(f, duration)
          entry == [format_id |-> f.format_id, height |-> height,
                    ext |-> ext_of(f), filesize |-> size.value, tbr |-> tbr]
      IN  IF size.raised THEN [raised |-> TRUE, seen |-> st.seen]
          ELSE IF replaces(st.seen, height, tbr)
          THEN [raised |-> FALSE,
                seen |-> [h \in DOMAIN st.seen \cup {height} |->
                             IF h = height THEN entry ELSE st.seen[h]]]
          ELSE st

RECURSIVE Loop(_, _, _, _)
Loop(st, all_formats, i, duration) ==
    IF i > Len(all_formats) THEN st
    ELSE Loop(LoopBody(st, all_formats[i], duration), all_formats, i + 1, duration)

\* sorted(S, reverse=True)
RECURSIVE SortedDesc(_)
SortedDesc(S) ==
    IF S = {} THEN <<>>
    ELSE LET m == CHOOSE x \in S : \A y \in S : y <= x
         IN  <<m>> \o SortedDesc(S \ {m})

\* line 146: format_size(filesize) or f"~{height}p"
size_str(filesize, height) ==
    IF format_size(filesize) # None THEN format_size(filesize) ELSE ApproxLabel(height)

\* lines 144-155
VideoOffer(fmt_info) ==
    [type |-> "video",
     label |-> <<"p", fmt_info.height>>,
     ext |-> fmt_info.ext,
     size |-> size_str(fmt_info.filesize, fmt_info.height),
     format_id |-> fmt_info.format_id,
     height |-> Some(fmt_info.height)]

VideoOffers(seen) ==
    LET order == SortedDesc(DOMAIN seen)
    IN  [k \in 1..Len(order) |-> VideoOffer(seen[order[k]])]

\* A variant of AudioOffer that formats the estimate whatever the duration.
AudioOffer_AlwaysEstimate(duration) ==
    [type |-> "audio",
     label |-> <<"MP3 Audio", 0>>,
     ext |-> "mp3",
     size |-> format_size(Some(BytesAt(MP3_KBPS, duration))),
     format_id |-> "bestaudio",
     height |-> None]

\* lines 157-170; duration is a number here
AudioOffer(duration) ==
    [type |-> "audio",
     label |-> <<"MP3 Audio", 0>>,
     ext |-> "mp3",
     size |-> IF duration > 0
              THEN format_size(Some(BytesAt(MP3_KBPS, duration)))
              ELSE HighQuality,
     format_id |-> "bestaudio",
     height |-> None]

\* info.get('duration', 0)
duration_of(info) == IF info.hasDuration THEN info.duration ELSE Some(0)

\* The handler, lines 94-178.  req is [url, fetchOk, fetchErr, info]: the
\* request's url and what ydl.extract_info does for it.
get_info(req) ==
    IF ~ TruthyStr(req.url) THEN Response(400, "No URL provided", <<>>, None)
    ELSE IF ~ req.fetchOk THEN GetInfoError(req.fetchErr)
    ELSE
      LET duration == duration_of(req.info)
          st == Loop([raised |-> FALSE, seen |-> <<>>], req.info.formats, 1, duration)
      IN  IF st.raised \/ duration = None      \* line 132 or line 158: None > 0
          THEN GetInfoError(TypeErrorMsg)
          ELSE Response(200, "",
                        VideoOffers(st.seen) \o <<AudioOffer(duration[1])>>,
                        duration)

(***************************************************************************)
(* The requests and calls the model is run on                              *)
(***************************************************************************)
MaxCands == 3
MaxSizeCands == 2

SeqsUpTo(S, n) == UNION {[1..k -> S] : k \in 0..n}

FormatIds == <<"18", "22", "135", "136", "137", "298">>

\* What the Job Runner reports of one format, but for its format_id.
CandSet(H, V, A, F, FA, T, E) ==
    [height : H, vcodec : V, acodec : A, filesize : F, filesize_approx : FA,
     tbr : T, ext : E]

\* The i-th format of the list gets the i-th identifier.
Numbered(cands) ==
    [i \in 1..Len(cands) |->
        [format_id |-> FormatIds[i], height |-> cands[i].height,
         vcodec |-> cands[i].vcodec, acodec |-> cands[i].acodec,
         filesize |-> cands[i].filesize,
         filesize_approx |-> cands[i].filesize_approx,
         tbr |-> cands[i].tbr, ext |-> cands[i].ext]]

\* Formats that differ in height and in which tracks they hold.
HeightCands ==
    {c \in CandSet({None, Some(480), Some(720), Some(1080)},
                   {NoneStr, "none", "avc1"}, {NoneStr, "none", "mp4a"},
                   {None}, {None}, {None}, {MissingKey}) :
        c.vcodec = "avc1" \/ c.acodec = "mp4a"}

\* Complete formats that differ in bitrate and reported size.
BitrateCands ==
    CandSet({Some(720), Some(1080)}, {"avc1"}, {"mp4a"},
            {None, Some(2048)}, {None}, {None, Some(0), Some(3000), Some(5000)},
            {MissingKey})

\* Complete formats of one height that differ in the sizes reported.
SizeCands ==
    CandSet({Some(720)}, {"avc1"}, {"mp4a"},
            {None, Some(0), Some(2048)}, {None, Some(0), Some(3 * MiB)},
            {None, Some(3000)}, {MissingKey, "webm"})

Duration(d) == [hasDuration |-> TRUE, duration |-> d]
NoDuration == [hasDuration |-> FALSE, duration |-> None]

InfoOf(d, c) ==
    [hasDuration |-> d.hasDuration, duration |-> d.duration, formats |-> Numbered(c)]

HeightDurations ==
    {NoDuration, Duration(None), Duration(Some(0)), Duration(Some(0 - 1)),
     Duration(Some(60))}
BitrateDurations == {Duration(Some(0)), Duration(Some(60))}
SizeDurations ==
    {Duration(None), Duration(Some(0)), Duration(Some(60)), Duration(Some(600))}

NoInfo == [hasDuration |-> FALSE, duration |-> None, formats |-> <<>>]
NoMsg == [text |-> "", signIn |-> FALSE, bot |-> FALSE]

FetchErrors ==
    {[text |-> "Sign in to confirm you're not a bot", signIn |-> TRUE, bot |-> TRUE],
     [text |-> "Robot check required", signIn |-> FALSE, bot |-> TRUE],
     [text |-> "Unsupported URL", signIn |-> FALSE, bot |-> FALSE]}

OkRequest(info) == [url |-> "u", fetchOk |-> TRUE, fetchErr |-> NoMsg, info |-> info]

FailingRequests ==
    {[url |-> NoneStr, fetchOk |-> FALSE, fetchErr |-> NoMsg, info |-> NoInfo]}
    \cup {[url |-> "u", fetchOk |-> FALSE, fetchErr |-> m, info |-> NoInfo] :
            m \in FetchErrors}

NoRequest == [url |-> NoneStr, fetchOk |-> FALSE, fetchErr |-> NoMsg, info |-> NoInfo]

EstHeights == {100, 144, 192, 300, 420, 600, 720, 900, 1000, 1080, 1260, 1800, 2160, 3000}

EstCalls ==
    [duration : {None, Some(0), Some(0 - 5), Some(1), Some(100)},
     height : {None} \cup {Some(h) : h \in EstHeights},
     tbr : {None, Some(0), Some(1000)}]

NoCall == [duration |-> None, height |-> None, tbr |-> None]
NotRun == [raised |-> FALSE, value |-> Some(0 - 1)]

(***************************************************************************)
(* The state machines                                                      *)
(***************************************************************************)
(***************************************************************************)
(* DOWNLOAD_DIR, /download, /serve-file and the cleanup thread             *)
(***************************************************************************)
NumDownloads == 2
NumIds == 2
MaxWrites == 2

SLEEP_SECONDS == 300
RETENTION_SECONDS == 600

\* Time passes in steps of half a sleep.
TickSeconds == SLEEP_SECONDS \div 2
\* An age beyond the retention is kept as this one.
AgeCap == RETENTION_SECONDS + TickSeconds

\* The /serve-file requests in flight: one.
Serves == {1}

\* str(uuid.uuid4())[:8]: one of the 16^8 prefixes, here one of NumIds.
Ids == 1..NumIds
VideoExts == {"mp4", "webm"}
Exts == VideoExts \cup {"mp3"}
\* <<id, ext>> is the file f"{id}.{ext}" of DOWNLOAD_DIR.
Names == Ids \X Exts
NoName == <<0, "">>
Gone == 0 - 1

\* files[n] is Gone, or now - os.path.getmtime(n) in seconds.
Exists(n) == files[n] # Gone

\* A variant of Expired that takes the retention itself as expired.
Expired_AtRetention(age) == age >= RETENTION_SECONDS

\* line 26: now - os.path.getmtime(filepath) > 600
Expired(age) == age > RETENTION_SECONDS

\* mime_types.get(ext, 'application/octet-stream'), lines 265-273
mimetype_of(ext) ==
    CASE ext = "mp4" -> "video/mp4"
      [] ext = "webm" -> "video/webm"
      [] ext = "mkv" -> "video/x-matroska"
      [] ext = "mp3" -> "audio/mpeg"
      [] ext = "m4a" -> "audio/mp4"
      [] OTHER -> "application/octet-stream"

DlIdle == [pc |-> "idle", type |-> "", id |-> 0, wrote |-> {}, writes |-> 0,
           status |-> 0, error |-> "", download_url |-> NoName]
SvIdle == [pc |-> "idle", name |-> NoName, status |-> 0, mimetype |-> ""]
JanAsleep == [pc |-> "sleep", sleepLeft |-> SLEEP_SECONDS, todo |-> {},
              age |-> [n \in Names |-> 0], cur |-> NoName]

FilesIdle ==
    /\ files = [n \in Names |-> Gone]
    /\ dl = [d \in 1..NumDownloads |-> DlIdle]
    /\ sv = [r \in Serves |-> SvIdle]
    /\ jan = JanAsleep

Min(a, b) == IF a < b THEN a ELSE b
Max(a, b) == IF a < b THEN b ELSE a

\* Time passes: every file ages, and a sleeping cleanup thread sleeps on.
Tick ==
    /\ files' = [n \in Names |->
                    IF Exists(n) THEN Min(files[n] + TickSeconds, AgeCap) ELSE Gone]
    /\ jan' = IF jan.pc = "sleep"
              THEN [jan EXCEPT !.sleepLeft = Max(0, @ - TickSeconds)]
              ELSE jan
    /\ UNCHANGED <<giReq, giResp, estArgs, estRes, dl, sv>>

\* cleanup_old_files, lines 21-23: the sleep is over; now = time.time() and
\* os.listdir.  jan.age[n] is now - getmtime(n) for the n of the listing
\* still to visit, and 0 for the others.
JanitorWake ==
    /\ jan.pc = "sleep" /\ jan.sleepLeft = 0
    /\ jan' = [jan EXCEPT !.pc = "sweep",
                          !.todo = {n \in Names : Exists(n)},
                          !.age = [n \in Names |-> IF Exists(n) THEN files[n] ELSE 0]]
    /\ UNCHANGED <<giReq, giResp, estArgs, estRes, files, dl, sv>>

\* lines 25-26: the file is no regular file any more, or is not old enough
JanitorSkip(n) ==
    /\ jan.pc = "sweep" /\ n \in jan.todo
    /\ ~ Exists(n) \/ ~ Expired(jan.age[n])
    /\ jan' = [jan EXCEPT !.todo = @ \ {n}, !.age[n] = 0]
    /\ UNCHANGED <<giReq, giResp, estArgs, estRes, files, dl, sv>>

\* A variant of JanitorRemove that leaves alone a file a request is about
\* to send.
JanitorRemove_UnlessServed(n) ==
    /\ jan.pc = "sweep" /\ n \in jan.todo
    /\ Exists(n) /\ Expired(jan.age[n])
    /\ \A r \in Serves : ~ (sv[r].pc = "send" /\ sv[r].name = n)
    /\ files' = [files EXCEPT ![n] = Gone]
    /\ jan' = [jan EXCEPT !.todo = @ \ {n}, !.age[n] = 0]
    /\ UNCHANGED <<giReq, giResp, estArgs, estRes, dl, sv>>

\* lines 25-28: os.remove(filepath) succeeds
JanitorRemove(n) ==
    /\ jan.pc = "sweep" /\ n \in jan.todo
    /\ Exists(n) /\ Expired(jan.age[n])
    /\ files' = [files EXCEPT ![n] = Gone]
    /\ jan' = [jan EXCEPT !.todo = @ \ {n}, !.age[n] = 0]
    /\ UNCHANGED <<giReq, giResp, estArgs, estRes, dl, sv>>

\* lines 27-29: os.remove(filepath) raises
JanitorRemoveFails(n) ==
    /\ jan.pc = "sweep" /\ n \in jan.todo
    /\ Exists(n) /\ Expired(jan.age[n])
    /\ jan' = [jan EXCEPT !.pc = "except", !.cur = n, !.todo = @ \ {n}, !.age[n] = 0]
    /\ UNCHANGED <<giReq, giResp, estArgs, estRes, files, dl, sv>>

\* lines 29-30: except: pass
JanitorPass ==
    /\ jan.pc = "except"
    /\ jan' = [jan EXCEPT !.pc = "sweep", !.cur = NoName]
    /\ UNCHANGED <<giReq, giResp, estArgs, estRes, files, dl, sv>>

\* lines 20-21: the listing is done; time.sleep(300) again
JanitorSleep ==
    /\ jan.pc = "sweep" /\ jan.todo = {}
    /\ jan' = [jan EXCEPT !.pc = "sleep", !.sleepLeft = SLEEP_SECONDS]
    /\ UNCHANGED <<giReq, giResp, estArgs, estRes, files, dl, sv>>

Janitor ==
    \/ JanitorWake
    \/ \E n \in Names : JanitorSkip(n)
    \/ \E n \in Names : JanitorRemove(n)
    \/ \E n \in Names : JanitorRemoveFails(n)
    \/ JanitorPass
    \/ JanitorSleep

\* download_file, lines 184-193: the request is read and unique_id drawn
DownloadStart(d, url, type, id) ==
    /\ dl[d].pc = "idle"
    /\ dl' = [dl EXCEPT ![d] =
                IF ~ TruthyStr(url)
                THEN [@ EXCEPT !.pc = "done", !.status = 400, !.error = "No URL provided"]
                ELSE [@ EXCEPT !.pc = "running", !.type = type, !.id = id]]
    /\ UNCHANGED <<giReq, giResp, estArgs, estRes, files, sv, jan>>

\* lines 210-211, 229-230: ydl.download writes (or writes again) a file at
\* the outtmpl f"{unique_id}.%(ext)s"; for audio the file left is the .mp3.
RunnerWrite(d, ext) ==
    /\ dl[d].pc = "running" /\ dl[d].writes < MaxWrites
    /\ IF dl[d].type = "audio" THEN ext = "mp3" ELSE ext \in VideoExts
    /\ LET n == <<dl[d].id, ext>>
       IN  /\ files' = [files EXCEPT ![n] = 0]
           /\ dl' = [dl EXCEPT ![d].wrote = @ \cup {n}, ![d].writes = @ + 1]
           /\ jan' = [jan EXCEPT !.age[n] = 0]
    /\ UNCHANGED <<giReq, giResp, estArgs, estRes, sv>>

\* ydl.download returns
RunnerReturn(d) ==
    /\ dl[d].pc = "running"
    /\ dl' = [dl EXCEPT ![d].pc = "ran"]
    /\ UNCHANGED <<giReq, giResp, estArgs, estRes, files, sv, jan>>

\* ydl.download raises; lines 248-252
RunnerRaises(d, msg) ==
    /\ dl[d].pc = "running"
    /\ dl' = [dl EXCEPT ![d].pc = "done", ![d].status = 500,
                        ![d].error = IF msg.signIn \/ msg.bot
                                     THEN "YouTube is blocking this request. Try again later."
                                     ELSE msg.text]
    /\ UNCHANGED <<giReq, giResp, estArgs, estRes, files, sv, jan>>

\* lines 213-221: the audio request answers with the fixed <id>.mp3
DownloadRespondAudio(d) ==
    /\ dl[d].pc = "ran" /\ dl[d].type = "audio"
    /\ LET mp3_path == <<dl[d].id, "mp3">>
       IN  dl' = [dl EXCEPT ![d] =
                    IF Exists(mp3_path)
                    THEN [@ EXCEPT !.pc = "done", !.status = 200, !.download_url = mp3_path]
                    ELSE [@ EXCEPT !.pc = "done", !.status = 500,
                                   !.error = "MP3 conversion failed"]]
    /\ UNCHANGED <<giReq, giResp, estArgs, estRes, files, sv, jan>>

\* lines 232-246: the video request answers with the first entry of
\* os.listdir, whose order is arbitrary, that starts with its id
DownloadRespondVideo(d) ==
    /\ dl[d].pc = "ran" /\ dl[d].type = "video"
    /\ LET found == {n \in Names : Exists(n) /\ n[1] = dl[d].id}
       IN  IF found = {}
           THEN dl' = [dl EXCEPT ![d].pc = "done", ![d].status = 500,
                                 ![d].error = "Download failed"]
           ELSE \E downloaded_file \in found :
                   dl' = [dl EXCEPT ![d].pc = "done", ![d].status = 200,
                                    ![d].download_url = downloaded_file]
    /\ UNCHANGED <<giReq, giResp, estArgs, estRes, files, sv, jan>>

Download(d) ==
    \/ \E url \in {NoneStr, "u"}, type \in {"video", "audio"}, id \in Ids :
          DownloadStart(d, url, type, id)
    \/ \E ext \in Exts : RunnerWrite(d, ext)
    \/ RunnerReturn(d)
    \/ \E msg \in FetchErrors : RunnerRaises(d, msg)
    \/ DownloadRespondAudio(d)
    \/ DownloadRespondVideo(d)

\* serve_file, lines 258-261: os.path.exists(filepath)
ServeCheck(r, n) ==
    /\ sv[r].pc = "idle"
    /\ sv' = [sv EXCEPT ![r] =
                IF ~ Exists(n)
                THEN [@ EXCEPT !.pc = "done", !.name = n, !.status = 404]
                ELSE [@ EXCEPT !.pc = "send", !.name = n,
                               !.mimetype = mimetype_of(n[2])]]
    /\ UNCHANGED <<giReq, giResp, estArgs, estRes, files, dl, jan>>

\* lines 275-280: send_file opens the file; it is there, or it is not and
\* send_file raises FileNotFoundError (answered 500 by the framework)
ServeSend(r) ==
    /\ sv[r].pc = "send"
    /\ sv' = [sv EXCEPT ![r].pc = "done",
                        ![r].status = IF Exists(sv[r].name) THEN 200 ELSE 500]
    /\ UNCHANGED <<giReq, giResp, estArgs, estRes, files, dl, jan>>

Serve(r) ==
    \/ \E n \in Names : ServeCheck(r, n)
    \/ ServeSend(r)

FilesInit ==
    /\ giReq = NoRequest
    /\ giResp = NoResp
    /\ estArgs = NoCall
    /\ estRes = NotRun
    /\ FilesIdle

\* The directory with one /download request, one /serve-file request and
\* the cleanup thread.
FilesNext ==
    \/ Tick
    \/ Janitor
    \/ Download(1)
    \/ \E r \in Serves : Serve(r)

SpecFiles == FilesInit /\ [][FilesNext]_vars

\* The directory with one /download request and the cleanup thread.
JanitorNext ==
    \/ Tick
    \/ Janitor
    \/ Download(1)

SpecJanitor == FilesInit /\ [][JanitorNext]_vars

\* The cleanup thread and the clock keep running.
LiveJanitor == SpecJanitor /\ WF_vars(Tick) /\ WF_vars(Janitor)

\* Concurrent /download requests on the directory.
DownloadsNext == \E d \in 1..NumDownloads : Download(d)

SpecDownloads == FilesInit /\ [][DownloadsNext]_vars

\* /get-info answers the request in flight.
GetInfo ==
    /\ giResp = NoResp
    /\ giResp' = get_info(giReq)
    /\ UNCHANGED <<giReq, estArgs, estRes, files, dl, sv, jan>>

Init ==
    /\ \/ giReq \in FailingRequests
       \/ \E d \in HeightDurations, c \in SeqsUpTo(HeightCands, MaxCands) :
              giReq = OkRequest(InfoOf(d, c))
       \/ \E d \in BitrateDurations, c \in SeqsUpTo(BitrateCands, MaxCands) :
              giReq = OkRequest(InfoOf(d, c))
       \/ \E d \in SizeDurations, c \in SeqsUpTo(SizeCands, MaxSizeCands) :
              giReq = OkRequest(InfoOf(d, c))
    /\ giResp = NoResp
    /\ estArgs = NoCall
    /\ estRes = NotRun
    /\ FilesIdle

Next == GetInfo

Spec == Init /\ [][Next]_vars

\* A call of estimate_video_size runs.
Estimate ==
    /\ estRes = NotRun
    /\ estRes' = estimate_video_size(estArgs.duration, estArgs.height, estArgs.tbr)
    /\ UNCHANGED <<giReq, giResp, estArgs, files, dl, sv, jan>>

EstInit ==
    /\ giReq = NoRequest
    /\ giResp = NoResp
    /\ estArgs \in EstCalls
    /\ estRes = NotRun
    /\ FilesIdle

EstNext == Estimate

SpecEstimate == EstInit /\ [][EstNext]_vars

(***************************************************************************)
(* Properties of the get-info reduction                                    *)
(***************************************************************************)
Formats == giReq.info.formats
Answered == giResp # NoResp
VideoOffersOf(resp) == SelectSeq(resp.formats, LAMBDA o : o.type = "video")
AudioOffersOf(resp) == SelectSeq(resp.formats, LAMBDA o : o.type = "audio")

\* The candidates with both tracks and a height, as the data model states it.
Combined(f) ==
    /\ f.vcodec # NoneStr /\ f.vcodec # "none"
    /\ f.acodec # NoneStr /\ f.acodec # "none"
    /\ f.height # None
CombinedAt(h) == {i \in 1..Len(Formats) : Combined(Formats[i]) /\ Formats[i].height = Some(h)}
CombinedHeights == {Formats[i].height[1] : i \in {j \in 1..Len(Formats) : Combined(Formats[j])}}

\* C1: the heights of the Video offers of a get-info response are exactly
\* the distinct heights of the candidates with both tracks and a height,
\* each once, in strictly descending order.
C1_VideoHeights ==
    giResp.status = 200 =>
        LET vids == VideoOffersOf(giResp)
        IN  /\ {vids[k].height[1] : k \in 1..Len(vids)} = CombinedHeights
            /\ \A k \in 1..Len(vids) - 1 : vids[k].height[1] > vids[k + 1].height[1]

\* C1's case: three offers from candidates given in another order, with one
\* candidate of vcodec "none" and a height excluded.
C1_Witness ==
    /\ giResp.status = 200
    /\ Len(VideoOffersOf(giResp)) = 2
    /\ Len(Formats) = 3
    /\ Formats[1].height = Some(720) /\ Combined(Formats[1])
    /\ Formats[2].height = Some(480) /\ Formats[2].vcodec = "none"
    /\ Formats[3].height = Some(1080) /\ Combined(Formats[3])

\* C2: whenever the metadata fetch succeeds, the formats of the response
\* hold exactly one Audio offer, it is the last element and its format_id
\* is "bestaudio".
C2_OneAudioLast ==
    (Answered /\ TruthyStr(giReq.url) /\ giReq.fetchOk) =>
        /\ giResp.status = 200
        /\ Len(AudioOffersOf(giResp)) = 1
        /\ giResp.formats[Len(giResp.formats)].type = "audio"
        /\ giResp.formats[Len(giResp.formats)].format_id = "bestaudio"

\* The bitrate a candidate is compared by: a missing or zero one counts 0.
Rate(f) == IF f.tbr = None THEN 0 ELSE f.tbr[1]

\* The candidate of height h that the reduction is to keep: the first, in
\* input order, among those of the greatest bitrate.
Kept(h) ==
    CHOOSE i \in CombinedAt(h) :
        \A j \in CombinedAt(h) :
            \/ Rate(Formats[j]) < Rate(Formats[i])
            \/ (Rate(Formats[j]) = Rate(Formats[i]) /\ i <= j)

\* C3: the Video offer of a height carries the format_id, the extension and
\* the size of the candidate of that height with the greatest bitrate, the
\* first in input order among equals.
C3_KeepsGreatestBitrate ==
    giResp.status = 200 =>
        LET vids == VideoOffersOf(giResp)
        IN  \A k \in 1..Len(vids) :
                LET h == vids[k].height[1]
                    f == Formats[Kept(h)]
                IN  /\ CombinedAt(h) # {}
                    /\ vids[k].format_id = f.format_id
                    /\ vids[k].ext = (IF f.ext = MissingKey THEN "mp4" ELSE f.ext)
                    /\ vids[k].size = size_str(resolved_size(f, giResp.duration_seconds).value, h)

\* C3's case: three candidates of one height, the greatest bitrate held by
\* the second and the third, a smaller one by the first.
C3_Witness ==
    /\ giResp.status = 200
    /\ Len(Formats) = 3
    /\ \A i \in 1..3 : Formats[i].height = Some(1080)
    /\ Formats[1].tbr = Some(3000)
    /\ Formats[2].tbr = Some(5000) /\ Formats[2].filesize = None
    /\ Formats[3].tbr = Some(5000) /\ Formats[3].filesize = Some(2048)
    /\ VideoOffersOf(giResp)[1].format_id = Formats[2].format_id

\* The byte size of candidate f by the chain: present means reported at all.
ChainPresent(f, duration) ==
    IF f.filesize # None THEN f.filesize
    ELSE IF f.filesize_approx # None THEN f.filesize_approx
    ELSE IF duration[1] > 0
         THEN estimate_video_size(duration, f.height, Some(Rate(f))).value
         ELSE None

\* The same chain where a reported size of 0 counts as not reported.
ChainNonZero(f, duration) ==
    IF f.filesize # None /\ f.filesize # Some(0) THEN f.filesize
    ELSE IF f.filesize_approx # None /\ f.filesize_approx # Some(0) THEN f.filesize_approx
    ELSE IF duration[1] > 0
         THEN estimate_video_size(duration, f.height, Some(Rate(f))).value
         ELSE None

Shown(bytes, h) == IF format_size(bytes) = None THEN <<"~p", h>> ELSE format_size(bytes)

\* C4 as stated: the size shown for a kept candidate is that of filesize if
\* it is present, 0 included, else of filesize_approx if present, else of
\* the estimate when the duration is positive.
C4_ChainAnyReported ==
    giResp.status = 200 =>
        LET vids == VideoOffersOf(giResp)
        IN  \A k \in 1..Len(vids) :
                LET h == vids[k].height[1]
                IN  vids[k].size = Shown(ChainPresent(Formats[Kept(h)], giResp.duration_seconds), h)

\* C4 as amended: the size shown for a kept candidate is that of filesize if
\* it is present and not 0, else of filesize_approx if present and not 0,
\* else of the estimate when the duration is positive, else none.
C4_ChainNonZeroReported ==
    giResp.status = 200 =>
        LET vids == VideoOffersOf(giResp)
        IN  \A k \in 1..Len(vids) :
                LET h == vids[k].height[1]
                IN  vids[k].size = Shown(ChainNonZero(Formats[Kept(h)], giResp.duration_seconds), h)

\* C4's case: a kept candidate with both sizes reported, and one with an
\* exact size of 0 and an approximate one.
C4_Witness ==
    /\ giResp.status = 200
    /\ Len(Formats) = 2
    /\ Formats[1].filesize = Some(0) /\ Formats[1].filesize_approx = Some(3 * MiB)
    /\ Formats[1].tbr = Some(3000)
    /\ Formats[2].filesize = Some(2048) /\ Formats[2].filesize_approx = Some(3 * MiB)
    /\ Formats[2].tbr = None
    /\ giResp.duration_seconds = Some(60)
    /\ VideoOffersOf(giResp)[1].size = <<"MB", 30>>

EstRan == estRes # NotRun

\* C5: a call with a zero, negative or absent duration returns None and
\* raises nothing, whatever the height and the bitrate.
C5_NoneForNonPositive ==
    (EstRan /\ (estArgs.duration = None \/ estArgs.duration[1] <= 0)) =>
        estRes = [raised |-> FALSE, value |-> None]

\* The table resolutions at the least distance of h.
Nearest(h) ==
    {k \in DOMAIN bitrate_map :
        \A k2 \in DOMAIN bitrate_map : Abs(k - h) <= Abs(k2 - h)}
Highest(S) == CHOOSE k \in S : \A k2 \in S : k2 <= k

\* C6: with a positive duration and no usable bitrate, the estimate is that
\* of the table resolution nearest to the height, the higher of two equally
\* near ones: its bitrate * 1000 / 8 * duration.
C6_NearestHigherOnTie ==
    (/\ EstRan
     /\ estArgs.duration # None /\ estArgs.duration[1] > 0
     /\ estArgs.tbr \in {None, Some(0)}
     /\ estArgs.height # None) =>
        /\ ~ estRes.raised
        /\ estRes.value =
             Some(((bitrate_map[Highest(Nearest(estArgs.height[1]))] * 1000) \div 8)
                  * estArgs.duration[1])

\* C6's case: height 900 lies between 1080 and 720; 1080 gives 62,500,000.
C6_Witness ==
    /\ EstRan
    /\ estArgs = [duration |-> Some(100), height |-> Some(900), tbr |-> Some(0)]
    /\ Nearest(900) = {1080, 720}
    /\ estRes.value = Some(62500000)

(***************************************************************************)
(* Properties of the directory                                             *)
(***************************************************************************)
\* The cleanup thread only deletes a file during a sweep at whose time the
\* file was more than 600 seconds old.
DeletesOnlyExpired ==
    [][\A n \in Names :
          (Exists(n) /\ files'[n] = Gone) =>
              /\ jan.pc = "sweep" /\ n \in jan.todo
              /\ jan.age[n] > 600 /\ files[n] > 600]_vars

\* A failed deletion is followed by the rest of the sweep and the next sleep.
FailureDoesNotStop == (jan.pc = "except") ~> (jan.pc = "sleep")

Aged(n) == Exists(n) /\ files[n] > 0
Rewritten(n) == Exists(n) /\ files[n] = 0
DeletionFailed(n) == jan.pc = "except" /\ jan.cur = n

\* C8 as stated: the cleanup thread deletes a file only in a sweep that
\* finds it older than 600 s, a failed deletion does not stop the sweep or
\* the loop, and every file written and not modified again is eventually
\* deleted.
C8_EveryFileEventuallyDeleted ==
    /\ DeletesOnlyExpired
    /\ FailureDoesNotStop
    /\ \A n \in Names : Aged(n) ~> (~ Exists(n) \/ Rewritten(n))

\* C8 as amended: the same, but a file written and not modified again is
\* eventually deleted or, again and again, the subject of a deletion that
\* fails.
C8_DeletedUnlessDeletionFails ==
    /\ DeletesOnlyExpired
    /\ FailureDoesNotStop
    /\ \A n \in Names : Aged(n) ~> (~ Exists(n) \/ Rewritten(n) \/ DeletionFailed(n))

\* C8's case: the deletion of an expired file has just failed, in a sweep
\* or after one that deleted another file the request wrote.
C8_Witness ==
    /\ jan.pc = "except"
    /\ \E a \in dl[1].wrote, b \in dl[1].wrote :
          /\ a # b
          /\ ~ Exists(a)
          /\ jan.cur = b /\ Exists(b) /\ files[b] > 600

\* C9: nothing holds back either side of the race: a request that has
\* passed the existence check has not answered 404 and goes on to send
\* whether the file is there or not, and the cleanup thread, come to that
\* file in a sweep that finds it expired, can delete it.
C9_DeleteWhileServed ==
    \A r \in Serves :
        sv[r].pc = "send" =>
            /\ sv[r].status # 404
            /\ ENABLED ServeSend(r)
            /\ (/\ jan.pc = "sweep" /\ sv[r].name \in jan.todo
                /\ Exists(sv[r].name) /\ jan.age[sv[r].name] > 600)
               => ENABLED JanitorRemove(sv[r].name)

\* C9's case: a request passed the check, the file was deleted, and the
\* send found no file: the answer is not 404 and no file was sent.
C9_Witness ==
    \E r \in Serves :
        /\ sv[r].pc = "done" /\ sv[r].status = 500
        /\ ~ Exists(sv[r].name)
        /\ sv[r].name \in dl[1].wrote

\* C10: concurrent /download requests use distinct ids, write to distinct
\* file names, and answer with a download_url that names a file the same
\* request wrote.
C10_NoCollision ==
    /\ \A d1 \in 1..NumDownloads, d2 \in 1..NumDownloads :
          (d1 # d2 /\ dl[d1].id # 0 /\ dl[d2].id # 0) =>
              /\ dl[d1].id # dl[d2].id
              /\ dl[d1].wrote \cap dl[d2].wrote = {}
    /\ \A d \in 1..NumDownloads :
          dl[d].status = 200 => dl[d].download_url \in dl[d].wrote

====
